---- MODULE Spec2Model ----
(***************************************************************************)
(* Model of src/bot.py: a Telegram bot that records numeric transactions   *)
(* per chat in SQLite (tables users, transactions), memoises per-chat      *)
(* totals in the process-wide dict user_totals_cache, broadcasts messages  *)
(* to all users and fits a trend model persisted in model.pkl.             *)
(*                                                                         *)
(* Amounts are the values float() gives for the modelled texts; all of     *)
(* them are whole numbers, on which float arithmetic is exact.  Dates are  *)
(* day ordinals (the "%Y-%m-%d" text of a day identifies the day).         *)
(***************************************************************************)
EXTENDS Integers, Sequences, FiniteSets, TLC

\* ---------------------------------------------------------------- constants
MAX_MSG_LEN == 4096
ADMIN_ID == 831902456
TRANSACTION_THRESHOLD == 1000

\* ------------------------------------------------------------------- bounds
MaxRows == 2
MaxDate == 2
MaxInFlight == 2

\* ------------------------------------------------------------------- inputs
ChatIds == {42, ADMIN_ID}

\* update.message.text, as sequences of characters
Texts ==
  { <<"-", "3", "0">>,
    <<" ", "+", "1", "5", "0", "0", ".", "0">>,
    <<"/", "s", "t", "a", "r", "t">>,
    <<"1", ".">> }

\* len(message) of a broadcast; 0 stands for empty context.args
MsgLens == {0, 1, MAX_MSG_LEN, MAX_MSG_LEN + 1}

\* What one use of "with Database() as db" can do: succeed, fail in
\* sqlite3.connect, fail in db.execute, or fail in conn.commit.
Outcomes == {"ok", "connect", "execute", "commit"}

VARIABLES
  users,              \* table users: the set of chat_id
  transactions,       \* table transactions: rows in insertion order
  user_totals_cache,  \* the dict: chat_id -> total
  model_pkl,          \* the file model.pkl
  today,              \* datetime.now(), as a day ordinal
  running,            \* the process is polling for updates
  pending,            \* handle_message calls suspended in await reply_text
  last,               \* the last call: its input, exception and result
  out                 \* the send calls the last call made, in order

vars == <<users, transactions, user_totals_cache, model_pkl, today, running,
          pending, last, out>>

\* ----------------------------------------------------------------- Database
\* __enter__ logs a failed connect and then reads the unset self.cursor, so a
\* failed connect raises AttributeError; an exception of the body passes
\* through __exit__, which returns None.
Raises(f) == f \in {"connect", "execute"}

\* __exit__ logs a failed commit and returns: the body's writes are lost and
\* the with statement completes normally.
Commits(f) == f = "ok"

\* --------------------------------------------------------------- SQL helpers
RECURSIVE SumAmounts(_)
SumAmounts(rows) ==
  IF rows = <<>> THEN 0 ELSE Head(rows).amount + SumAmounts(Tail(rows))

\* SELECT * FROM transactions WHERE chat_id = ?
ListForUser(rows, chat_id) ==
  SelectSeq(rows, LAMBDA r : r.chat_id = chat_id)

\* SELECT SUM(amount) FROM transactions WHERE chat_id = ? : NULL on no rows
SqlSum(rows, chat_id) ==
  LET mine == ListForUser(rows, chat_id)
  IN  [null |-> mine = <<>>, value |-> SumAmounts(mine)]

\* db.fetchone()[0] or 0
OrZero(s) == IF s.null \/ s.value = 0 THEN 0 ELSE s.value

\* DELETE FROM transactions, without the WHERE clause
DeleteForUser_AllRows(rows, chat_id) ==
  SelectSeq(rows, LAMBDA r : FALSE)

\* DELETE FROM transactions WHERE chat_id = ?
DeleteForUser(rows, chat_id) ==
  SelectSeq(rows, LAMBDA r : r.chat_id # chat_id)

\* the distinct dates of SELECT date, SUM(amount) ... GROUP BY date
DateSet(rows) == { rows[i].date : i \in DOMAIN rows }

\* the elements of a set of numbers in ascending order
RECURSIVE SortedSeq(_)
SortedSeq(S) ==
  IF S = {} THEN <<>>
  ELSE LET m == CHOOSE x \in S : \A y \in S : x <= y
       IN  <<m>> \o SortedSeq(S \ {m})

\* SELECT date, SUM(amount) FROM transactions GROUP BY date, one row per
\* row of transactions
GroupByDate_Ungrouped(rows) ==
  [k \in DOMAIN rows |->
     [date |-> rows[k].date, total_amount |-> rows[k].amount]]

\* SELECT date, SUM(amount) FROM transactions GROUP BY date: SQLite sorts the
\* rows by the grouping key and emits one row per key, in key order; the
\* query has no WHERE clause, so the rows of all chats are summed
GroupByDate(rows) ==
  LET keys == SortedSeq(DateSet(rows))
  IN  [k \in DOMAIN keys |->
         [date |-> keys[k],
          total_amount |->
            SumAmounts(SelectSeq(rows, LAMBDA r : r.date = keys[k]))]]

\* ------------------------------------------------------------ dict helpers
EmptyDict == [k \in {} |-> 0]

\* a new dict that holds nothing but d[k] = v
DictSet_OnlyKey(d, k, v) ==
  [x \in {k} |-> v]

\* d[k] = v
DictSet(d, k, v) ==
  [x \in (DOMAIN d) \cup {k} |-> IF x = k THEN v ELSE d[x]]

\* ------------------------------------------------------------- text parsing
Digits == {"0", "1", "2", "3", "4", "5", "6", "7", "8", "9"}

RECURSIVE LStrip(_)
LStrip(t) == IF t # <<>> /\ Head(t) = " " THEN LStrip(Tail(t)) ELSE t

RECURSIVE RStrip(_)
RStrip(t) ==
  IF t # <<>> /\ t[Len(t)] = " " THEN RStrip(SubSeq(t, 1, Len(t) - 1)) ELSE t

\* str.strip()
Strip(t) == RStrip(LStrip(t))

IsDigits(s) == s # <<>> /\ \A i \in DOMAIN s : s[i] \in Digits

Unsigned(t) == IF t # <<>> /\ Head(t) \in {"+", "-"} THEN Tail(t) ELSE t

\* the pattern with an optional fraction part, r'^[+-]?\d+(\.\d*)?$'
Matches_EmptyFraction(t) ==
  LET b == Unsigned(t)
  IN  \/ IsDigits(b)
      \/ \E k \in DOMAIN b :
           /\ b[k] = "."
           /\ IsDigits(SubSeq(b, 1, k - 1))
           /\ \A i \in (k + 1)..Len(b) : b[i] \in Digits

\* re.match(r'^[+-]?\d+(\.\d+)?$', text)
Matches(t) ==
  LET b == Unsigned(t)
  IN  \/ IsDigits(b)
      \/ \E k \in DOMAIN b :
           /\ b[k] = "."
           /\ IsDigits(SubSeq(b, 1, k - 1))
           /\ IsDigits(SubSeq(b, k + 1, Len(b)))

DigitVal(ch) ==
  CASE ch = "0" -> 0 [] ch = "1" -> 1 [] ch = "2" -> 2 [] ch = "3" -> 3
    [] ch = "4" -> 4 [] ch = "5" -> 5 [] ch = "6" -> 6 [] ch = "7" -> 7
    [] ch = "8" -> 8 [] ch = "9" -> 9

RECURSIVE NatVal(_)
NatVal(s) ==
  IF s = <<>> THEN 0
  ELSE 10 * NatVal(SubSeq(s, 1, Len(s) - 1)) + DigitVal(s[Len(s)])

\* float(match.group()), for texts whose fractional digits are all zero
ParseAmount(t) ==
  LET b    == Unsigned(t)
      dot  == { k \in DOMAIN b : b[k] = "." }
      ipart == IF dot = {} THEN b
               ELSE SubSeq(b, 1, (CHOOSE k \in dot : TRUE) - 1)
  IN  IF Head(t) = "-" THEN 0 - NatVal(ipart) ELSE NatVal(ipart)

\* ---------------------------------------------------------------- functions
\* add_user: INSERT OR IGNORE INTO users
add_user(us, chat_id, f) ==
  [error |-> Raises(f),
   users |-> IF Commits(f) THEN us \cup {chat_id} ELSE us]

\* get_total without the lookup of lines 61-62: it always reads storage
get_total_uncached(cache, rows, chat_id, f) ==
  IF Raises(f)
  THEN [error |-> TRUE, total |-> 0, cache |-> cache, db |-> f]
  ELSE LET total == OrZero(SqlSum(rows, chat_id))
       IN  [error |-> FALSE, total |-> total,
            cache |-> DictSet(cache, chat_id, total), db |-> f]

\* get_total: the cached value on a hit, else the stored sum, which it caches
get_total(cache, rows, chat_id, f) ==
  IF chat_id \in DOMAIN cache
  THEN [error |-> FALSE, total |-> cache[chat_id], cache |-> cache,
        db |-> "skip"]
  ELSE IF Raises(f)
  THEN [error |-> TRUE, total |-> 0, cache |-> cache, db |-> f]
  ELSE LET total == OrZero(SqlSum(rows, chat_id))
       IN  [error |-> FALSE, total |-> total,
            cache |-> DictSet(cache, chat_id, total), db |-> f]

\* save_transaction: insert the row, then user_totals_cache[chat_id] =
\* get_total(chat_id)
save_transaction(cache, rows, chat_id, amount, date, fi, fs) ==
  LET row   == [amount |-> amount, date |-> date, category |-> "general",
                chat_id |-> chat_id]
      rows1 == IF Commits(fi) THEN Append(rows, row) ELSE rows
      g     == get_total(cache, rows1, chat_id, fs)
  IN  IF Raises(fi)
      THEN [error |-> TRUE, rows |-> rows, cache |-> cache, db |-> "skip"]
      ELSE IF g.error
      THEN [error |-> TRUE, rows |-> rows1, cache |-> cache, db |-> g.db]
      ELSE [error |-> FALSE, rows |-> rows1,
            cache |-> DictSet(g.cache, chat_id, g.total), db |-> g.db]

\* notify_group: the module defines no name bot, so evaluating
\* bot.send_message raises NameError before anything is sent
notify_group(chat_id, amount) == [error |-> TRUE, sent |-> <<>>]

\* notify_admin_if_threshold_exceeded: the same undefined bot, inside the if
notify_admin_if_threshold_exceeded(chat_id, amount) ==
  [error |-> amount > TRANSACTION_THRESHOLD, sent |-> <<>>]

\* ------------------------------------------------------------------ messages
Msg(to, kind, amount, total, chunk) ==
  [to |-> to, kind |-> kind, amount |-> amount, total |-> total,
   chunk |-> chunk]

Reply(to, kind) == Msg(to, kind, 0, 0, <<>>)

\* error: "none", or the function the exception left the call from
Call(op, chat_id, arg, error, result) ==
  [op |-> op, chat_id |-> chat_id, arg |-> arg, error |-> error,
   result |-> result]

\* model.pkl: absent, or the pickled fit, identified by the dates it was fit on
NoFile == [exists |-> FALSE, dates |-> {}]

\* train_model: fit and pickle only when the aggregate has more than one date
train_model(rows, pkl, f) ==
  LET fetched == GroupByDate(rows)
      dates   == { fetched[k].date : k \in DOMAIN fetched }
  IN  IF Raises(f)
      THEN [error |-> TRUE, pkl |-> pkl, n |-> 0, fetched |-> <<>>]
      ELSE [error |-> FALSE,
            pkl |-> IF Len(fetched) > 1
                    THEN [exists |-> TRUE, dates |-> dates] ELSE pkl,
            n |-> Len(fetched),
            fetched |-> fetched]

\* ---------------------------------------------------------------- broadcast
\* [message[i:i + MAX_MSG_LEN] for i in range(0, len(message), MAX_MSG_LEN)],
\* each chunk as <<start, length>>
Chunks(len) ==
  [k \in 1..((len + MAX_MSG_LEN - 1) \div MAX_MSG_LEN) |->
     LET start == (k - 1) * MAX_MSG_LEN
     IN  <<start, IF len - start < MAX_MSG_LEN THEN len - start
                  ELSE MAX_MSG_LEN>>]

\* for user in users: for chunk in chunks, flattened
RECURSIVE Deliveries(_, _)
Deliveries(recipients, chunks) ==
  IF recipients = <<>> THEN <<>>
  ELSE [k \in DOMAIN chunks |-> <<Head(recipients), chunks[k]>>]
       \o Deliveries(Tail(recipients), chunks)

\* send_message without the try: the exception leaves the loop body
try_send_uncaught(i, fails) == [error |-> i \in fails, logged |-> FALSE]

\* try: send_message ... except Exception: logger.error
try_send(i, fails) == [error |-> FALSE, logged |-> i \in fails]

\* the broadcast loop from delivery i on; an exception leaving the loop body
\* ends the loop
RECURSIVE BroadcastLoop(_, _, _)
BroadcastLoop(pairs, i, fails) ==
  IF i > Len(pairs) THEN [error |-> FALSE, sent |-> <<>>, logged |-> 0]
  ELSE LET r    == try_send(i, fails)
           m    == Msg(pairs[i][1], "broadcast", 0, 0, pairs[i][2])
           n    == IF r.logged THEN 1 ELSE 0
           rest == BroadcastLoop(pairs, i + 1, fails)
       IN  IF r.error THEN [error |-> TRUE, sent |-> <<m>>, logged |-> n]
           ELSE [error |-> rest.error, sent |-> <<m>> \o rest.sent,
                 logged |-> n + rest.logged]

\* --------------------------------------------------------------------- Init
\* a fresh deployment right after main(): empty tables, no model.pkl
Init ==
  /\ users = {}
  /\ transactions = <<>>
  /\ user_totals_cache = EmptyDict
  /\ model_pkl = NoFile
  /\ today = 1
  /\ running = TRUE
  /\ pending = <<>>
  /\ last = Call("main", 0, <<>>, "none", 0)
  /\ out = <<>>

\* ------------------------------------------------------------------ actions
\* handle_message: a text message (or /start) from chat_id; fa, fi, fs are
\* the outcomes of the Database uses of add_user, of the insert and of
\* get_total ("ok" for a use the call does not reach)
handle_message(chat_id, text, fa, fi, fs) ==
  LET t      == Strip(text)
      u      == add_user(users, chat_id, fa)
      amount == ParseAmount(t)
      s      == save_transaction(user_totals_cache, transactions, chat_id,
                                 amount, today, fi, fs)
      g      == get_total(s.cache, s.rows, chat_id, fs)
      ng     == notify_group(chat_id, amount)
      na     == notify_admin_if_threshold_exceeded(chat_id, amount)
  IN  /\ running
      /\ model_pkl' = model_pkl /\ today' = today /\ running' = running
      /\ pending' = pending
      /\ users' = u.users
      /\ IF u.error
         THEN /\ fi = "ok" /\ fs = "ok"
              /\ UNCHANGED <<transactions, user_totals_cache>>
              /\ out' = <<>>
              /\ last' = Call("handle_message", chat_id, text, "add_user", 0)
         ELSE IF ~Matches(t)
         THEN /\ fi = "ok" /\ fs = "ok"
              /\ UNCHANGED <<transactions, user_totals_cache>>
              /\ out' = <<Reply(chat_id, "invalid")>>
              /\ last' = Call("handle_message", chat_id, text, "none", 0)
         ELSE /\ Len(transactions) < MaxRows
              /\ (Raises(fi) \/ chat_id \in DOMAIN user_totals_cache)
                   => fs = "ok"
              /\ transactions' = s.rows
              /\ user_totals_cache' = IF s.error THEN s.cache ELSE g.cache
              /\ IF s.error
                 THEN /\ out' = <<>>
                      /\ last' = Call("handle_message", chat_id, text,
                                      "save_transaction", 0)
                 ELSE /\ out' = <<Msg(chat_id, "added", amount, g.total,
                                      <<>>)>>
                                \o ng.sent
                                \o (IF ng.error THEN <<>> ELSE na.sent)
                      /\ last' = Call("handle_message", chat_id, text,
                                      IF ng.error THEN "notify_group"
                                      ELSE IF na.error
                                      THEN "notify_admin_if_threshold_exceeded"
                                      ELSE "none",
                                      g.total)

\* a call of get_total(chat_id); arg records whether line 61 found the key
call_get_total(chat_id, f) ==
  LET g == get_total(user_totals_cache, transactions, chat_id, f)
  IN  /\ running
      /\ chat_id \in DOMAIN user_totals_cache => f = "ok"
      /\ user_totals_cache' = g.cache
      /\ out' = <<>>
      /\ last' = Call("get_total", chat_id,
                      IF chat_id \in DOMAIN user_totals_cache THEN "hit"
                      ELSE "miss",
                      IF g.error THEN "get_total" ELSE "none", g.total)
      /\ UNCHANGED <<users, transactions, model_pkl, today, running, pending>>

\* reset_transactions: /reset from chat_id
reset_transactions(chat_id, f) ==
  /\ running
  /\ transactions' = IF Commits(f) THEN DeleteForUser(transactions, chat_id)
                     ELSE transactions
  /\ IF Raises(f)
     THEN /\ out' = <<>>
          /\ last' = Call("reset_transactions", chat_id, 0,
                          "reset_transactions", 0)
     ELSE /\ out' = <<Reply(chat_id, "reset")>>
          /\ last' = Call("reset_transactions", chat_id, 0, "none", 0)
  /\ UNCHANGED <<users, user_totals_cache, model_pkl, today, running,
                 pending>>

\* clear_cache: /clear_cache from chat_id
clear_cache(chat_id) ==
  /\ running
  /\ user_totals_cache' = EmptyDict
  /\ out' = <<Reply(chat_id, "cache_cleared")>>
  /\ last' = Call("clear_cache", chat_id, 0, "none", 0)
  /\ UNCHANGED <<users, transactions, model_pkl, today, running, pending>>

\* broadcast_message: /broadcast from chat_id with a message of len
\* characters (0: no args); fails are the deliveries whose send_message
\* raises; result is the number of errors logged
broadcast_message(chat_id, len, f, fails) ==
  LET pairs == Deliveries(SortedSeq(users), Chunks(len))
      loop  == BroadcastLoop(pairs, 1, fails)
  IN  /\ running
      /\ IF len = 0
         THEN /\ f = "ok" /\ fails = {}
              /\ out' = <<Reply(chat_id, "need_message")>>
              /\ last' = Call("broadcast_message", chat_id, len, "none", 0)
         ELSE IF Raises(f)
         THEN /\ fails = {}
              /\ out' = <<>>
              /\ last' = Call("broadcast_message", chat_id, len,
                              "broadcast_message", 0)
         ELSE /\ fails \subseteq DOMAIN pairs
              /\ out' = loop.sent \o
                        (IF loop.error THEN <<>>
                         ELSE <<Reply(chat_id, "broadcast_sent")>>)
              /\ last' = Call("broadcast_message", chat_id, len,
                              IF loop.error THEN "send_message" ELSE "none",
                              loop.logged)
      /\ UNCHANGED <<users, transactions, user_totals_cache, model_pkl, today,
                     running, pending>>

\* main: the process (re)starts; the dict is new, the files persist; an
\* exception of train_model ends the process before run_polling
main(f) ==
  LET m == train_model(transactions, model_pkl, f)
  IN  /\ user_totals_cache' = EmptyDict
      /\ model_pkl' = m.pkl
      /\ running' = ~m.error
      /\ pending' = <<>>
      /\ out' = <<>>
      /\ last' = Call("main", 0, m.fetched,
                      IF m.error THEN "train_model" ELSE "none", m.n)
      /\ UNCHANGED <<users, transactions, today>>

\* a call of predict_future: open('model.pkl', 'rb') raises when no file
predict_future ==
  /\ running
  /\ out' = <<>>
  /\ last' = Call("predict_future", 0, 0,
                  IF model_pkl.exists THEN "none" ELSE "predict_future", 0)
  /\ UNCHANGED <<users, transactions, user_totals_cache, model_pkl, today,
                 running, pending>>

\* handle_message where the framework runs handlers concurrently: the call up
\* to its first await, the reply_text of line 216 or 222.  add_user,
\* save_transaction and get_total contain no await, so this is one step; an
\* exception before the reply ends the call.
handle_message_begin(chat_id, text, fa, fi, fs) ==
  LET t      == Strip(text)
      u      == add_user(users, chat_id, fa)
      amount == ParseAmount(t)
      s      == save_transaction(user_totals_cache, transactions, chat_id,
                                 amount, today, fi, fs)
      g      == get_total(s.cache, s.rows, chat_id, fs)
  IN  /\ running
      /\ Len(pending) < MaxInFlight
      /\ model_pkl' = model_pkl /\ today' = today /\ running' = running
      /\ users' = u.users
      /\ IF u.error
         THEN /\ fi = "ok" /\ fs = "ok"
              /\ UNCHANGED <<transactions, user_totals_cache, pending>>
              /\ out' = <<>>
              /\ last' = Call("handle_message", chat_id, text, "add_user", 0)
         ELSE IF ~Matches(t)
         THEN /\ fi = "ok" /\ fs = "ok"
              /\ UNCHANGED <<transactions, user_totals_cache>>
              /\ pending' = Append(pending, [chat_id |-> chat_id,
                                             text |-> text, valid |-> FALSE,
                                             amount |-> 0])
              /\ out' = <<Reply(chat_id, "invalid")>>
              /\ last' = Call("handle_message", chat_id, text, "await", 0)
         ELSE /\ Len(transactions) < MaxRows
              /\ (Raises(fi) \/ chat_id \in DOMAIN user_totals_cache)
                   => fs = "ok"
              /\ transactions' = s.rows
              /\ user_totals_cache' = IF s.error THEN s.cache ELSE g.cache
              /\ IF s.error
                 THEN /\ pending' = pending
                      /\ out' = <<>>
                      /\ last' = Call("handle_message", chat_id, text,
                                      "save_transaction", 0)
                 ELSE /\ pending' = Append(pending, [chat_id |-> chat_id,
                                                     text |-> text,
                                                     valid |-> TRUE,
                                                     amount |-> amount])
                      /\ out' = <<Msg(chat_id, "added", amount, g.total,
                                      <<>>)>>
                      /\ last' = Call("handle_message", chat_id, text,
                                      "await", g.total)

\* the suspended call pending[i] continues after its reply_text: lines 219 and
\* 220 for a number, the end of the handler otherwise
handle_message_resume(i) ==
  LET p  == pending[i]
      ng == notify_group(p.chat_id, p.amount)
      na == notify_admin_if_threshold_exceeded(p.chat_id, p.amount)
  IN  /\ running
      /\ i \in DOMAIN pending
      /\ pending' = [k \in 1..(Len(pending) - 1) |->
                       IF k < i THEN pending[k] ELSE pending[k + 1]]
      /\ out' = IF p.valid
                THEN ng.sent \o (IF ng.error THEN <<>> ELSE na.sent)
                ELSE <<>>
      /\ last' = Call("handle_message", p.chat_id, p.text,
                      IF ~p.valid THEN "none"
                      ELSE IF ng.error THEN "notify_group"
                      ELSE IF na.error
                      THEN "notify_admin_if_threshold_exceeded"
                      ELSE "none",
                      0)
      /\ UNCHANGED <<users, transactions, user_totals_cache, model_pkl, today,
                     running>>

\* midnight passes
Tick ==
  /\ today < MaxDate
  /\ today' = today + 1
  /\ UNCHANGED <<users, transactions, user_totals_cache, model_pkl, running,
                 pending, last, out>>

\* ----------------------------------------------------------- specifications
\* the deliveries of one broadcast: every chat, every chunk of the longest
\* message
FailSets ==
  SUBSET (1..(Cardinality(ChatIds) * Len(Chunks(MAX_MSG_LEN + 1))))

\* texts that the pattern of handle_message does not match
InvalidTexts == { <<"/", "s", "t", "a", "r", "t">>, <<"1", ".">> }

\* the texts sent while storage may fail
FaultTexts == { <<"-", "3", "0">> } \cup InvalidTexts

ValidTexts == { t \in Texts : Matches(Strip(t)) }

\* The ledger: the calls that read or write users, transactions and
\* user_totals_cache, and the restart that empties the dict.  Storage
\* outcomes are drawn from F.
LedgerStep(F, T) ==
  \/ \E c \in ChatIds, t \in T, fa \in F, fi \in F, fs \in F :
       handle_message(c, t, fa, fi, fs)
  \/ \E c \in ChatIds, f \in F : call_get_total(c, f)
  \/ \E c \in ChatIds, f \in F : reset_transactions(c, f)
  \/ \E c \in ChatIds : clear_cache(c)
  \/ \E f \in F : main(f)

\* the ledger over storage that may fail
Next == LedgerStep(Outcomes, FaultTexts)

Spec == Init /\ [][Next]_vars

\* the ledger over storage that never fails
NextReliable == LedgerStep({"ok"}, Texts)

SpecReliable == Init /\ [][NextReliable]_vars

\* Broadcasting reads only the table users, which only add_user writes:
\* messages that register their chat, broadcasts, restarts.
NextBroadcast ==
  \/ \E c \in ChatIds, t \in InvalidTexts, fa \in Outcomes :
       handle_message(c, t, fa, "ok", "ok")
  \/ \E c \in ChatIds, len \in MsgLens, f \in Outcomes, fails \in FailSets :
       broadcast_message(c, len, f, fails)
  \/ \E f \in Outcomes : main(f)

SpecBroadcast == Init /\ [][NextBroadcast]_vars

\* Forecasting reads the dates of the rows and model.pkl: adds and resets
\* over the days, restarts (which train), predictions.
NextForecast ==
  \/ \E c \in ChatIds, t \in ValidTexts :
       handle_message(c, t, "ok", "ok", "ok")
  \/ \E c \in ChatIds : reset_transactions(c, "ok")
  \/ main("ok")
  \/ predict_future
  \/ Tick

SpecForecast == Init /\ [][NextForecast]_vars

\* The commands the help text reserves for the admin, from every chat, next
\* to the messages that register chats and fill the dict.
NextAdmin ==
  \/ \E c \in ChatIds, t \in Texts : handle_message(c, t, "ok", "ok", "ok")
  \/ \E c \in ChatIds : clear_cache(c)
  \/ \E c \in ChatIds, len \in MsgLens : broadcast_message(c, len, "ok", {})

SpecAdmin == Init /\ [][NextAdmin]_vars

\* Handlers dispatched concurrently: calls of handle_message overlap at
\* their awaits, over storage that works.
ConcurrentOutcomes == {"ok"}

NextConcurrent ==
  \/ \E c \in ChatIds, t \in Texts, fa \in ConcurrentOutcomes,
        fi \in ConcurrentOutcomes, fs \in ConcurrentOutcomes :
       handle_message_begin(c, t, fa, fi, fs)
  \/ \E i \in 1..MaxInFlight : handle_message_resume(i)

SpecConcurrent == Init /\ [][NextConcurrent]_vars

\* ------------------------------------------------------------------- claims
Total(chat_id) ==
  get_total(user_totals_cache, transactions, chat_id, "ok").total

StoredSum(chat_id) == SumAmounts(ListForUser(transactions, chat_id))

Acknowledged ==
  last.op = "handle_message" /\ out # <<>> /\ out[1].kind = "added"

\* C1: over reliable storage, the total reported after an accepted add, and
\* get_total afterwards, equal the arithmetic sum of the amounts added for
\* that chat since its last reset (the amounts of its rows).
C1_TotalIsSumOfAdds ==
  Acknowledged =>
    /\ out[1].total = StoredSum(last.chat_id)
    /\ Total(last.chat_id) = StoredSum(last.chat_id)

\* C2: every entry of user_totals_cache equals the sum of the amounts of
\* that chat's stored rows.
C2_CacheEqualsStorage ==
  \A c \in DOMAIN user_totals_cache : user_totals_cache[c] = StoredSum(c)

\* C3: after reset_transactions for a chat, get_total for it returns 0 and
\* its transaction list is empty.
C3_ResetGivesZero ==
  (last.op = "reset_transactions" /\ last.error = "none") =>
    /\ Total(last.chat_id) = 0
    /\ ListForUser(transactions, last.chat_id) = <<>>

\* C4: clear_cache changes no stored row and, for every chat, get_total
\* returns the same value right before and right after it.
C4_ClearCacheTransparent ==
  [][\A c \in ChatIds :
       clear_cache(c) =>
         /\ transactions' = transactions
         /\ \A k \in ChatIds :
              get_total(user_totals_cache', transactions', k, "ok").total
                = Total(k)]_vars

\* C5: a call of get_total for a chat with no stored rows returns 0 and does
\* not raise.
C5_NoRowsGivesZero ==
  (last.op = "get_total" /\ ListForUser(transactions, last.chat_id) = <<>>) =>
    /\ last.error = "none"
    /\ last.result = 0

\* C6: when the insert of a transaction fails in connect, execute or commit,
\* the call raises from save_transaction, the dict is unchanged and no
\* "Amount added" reply is sent.
C6_FailedWriteSurfaces ==
  [][\A c \in ChatIds, t \in ValidTexts, fa \in {"ok", "commit"},
        fi \in {"connect", "execute", "commit"}, fs \in Outcomes :
       handle_message(c, t, fa, fi, fs) =>
         /\ last'.error = "save_transaction"
         /\ user_totals_cache' = user_totals_cache
         /\ \A i \in DOMAIN out' : out'[i].kind # "added"]_vars

\* C7 as stated: a message whose text does not match the pattern, handled
\* without an exception, is answered by the rejection reply and changes
\* neither the rows, nor the dict, nor the table users.
C7_InvalidChangesNothing ==
  [][\A c \in ChatIds, t \in InvalidTexts, fa \in Outcomes :
       (handle_message(c, t, fa, "ok", "ok") /\ last'.error = "none") =>
         /\ out' = <<Reply(c, "invalid")>>
         /\ UNCHANGED <<transactions, user_totals_cache, users>>]_vars

\* C7 amended: a message whose text does not match the pattern inserts no
\* row and leaves the dict unchanged; add_user runs before the pattern test,
\* so the table users keeps its rows and gains at most the sender; the
\* rejection reply is sent unless add_user raised, and then nothing is sent.
C7_InvalidAddsOnlyUser ==
  [][\A c \in ChatIds, t \in InvalidTexts, fa \in Outcomes :
       handle_message(c, t, fa, "ok", "ok") =>
         /\ UNCHANGED <<transactions, user_totals_cache>>
         /\ users \subseteq users' /\ users' \subseteq users \cup {c}
         /\ last'.error \in {"none", "add_user"}
         /\ last'.error = "none" => out' = <<Reply(c, "invalid")>>
         /\ last'.error = "add_user" => out' = <<>>]_vars

C7_Witness ==
  /\ last.op = "handle_message"
  /\ last.arg \in InvalidTexts
  /\ out = <<Reply(last.chat_id, "invalid")>>
  /\ last.chat_id \in users
  /\ transactions # <<>>
  /\ DOMAIN user_totals_cache # {}

\* C8: the chat_id of every stored transaction row is in the table users.
C8_RowsHaveUsers ==
  \A i \in DOMAIN transactions : transactions[i].chat_id \in users

BroadcastsTo(u) ==
  SelectSeq(out, LAMBDA m : m.kind = "broadcast" /\ m.to = u)

\* the chunks of ms are consecutive pieces, of 1..MAX_MSG_LEN characters,
\* that make up a message of len characters
CoversMessage(ms, len) ==
  /\ ms # <<>>
  /\ ms[1].chunk[1] = 0
  /\ \A i \in DOMAIN ms : ms[i].chunk[2] \in 1..MAX_MSG_LEN
  /\ \A i \in 1..(Len(ms) - 1) :
       ms[i + 1].chunk[1] = ms[i].chunk[1] + ms[i].chunk[2]
  /\ ms[Len(ms)].chunk[1] + ms[Len(ms)].chunk[2] = len

AllDelivered ==
  /\ out # <<>>
  /\ out[Len(out)] = Reply(last.chat_id, "broadcast_sent")
  /\ \A i \in 1..(Len(out) - 1) :
       out[i].kind = "broadcast" /\ out[i].to \in users
  /\ \A u \in users : CoversMessage(BroadcastsTo(u), last.arg)

\* C9 as stated: every broadcast of a non-empty message attempts every chunk
\* for every chat of the table users and ends with "Broadcast sent.".
C9_BroadcastAlwaysCompletes ==
  (last.op = "broadcast_message" /\ last.arg > 0) => AllDelivered

\* C9 amended: unless reading the table users raises (and then the exception
\* leaves the handler before any send), a broadcast of a non-empty message
\* attempts every chunk for every chat of the table users, whichever sends
\* fail, raises nothing and ends with "Broadcast sent.".
C9_BroadcastCompletesAfterRead ==
  (last.op = "broadcast_message" /\ last.arg > 0) =>
    IF last.error = "broadcast_message" THEN out = <<>>
    ELSE last.error = "none" /\ AllDelivered

C9_Witness ==
  /\ last.op = "broadcast_message"
  /\ last.arg > MAX_MSG_LEN
  /\ last.result > 0
  /\ Cardinality(users) > 1
  /\ AllDelivered

\* C10: while the rows hold fewer than 2 distinct dates, a call of
\* predict_future raises instead of returning a prediction.
C10_NoStalePrediction ==
  (last.op = "predict_future" /\ Cardinality(DateSet(transactions)) < 2) =>
    last.error = "predict_future"

\* the rows of chat c and the calls of handle_message for c now suspended
InFlight(c) == SelectSeq(pending, LAMBDA p : p.valid /\ p.chat_id = c)

OthersUnchanged(c) ==
  \A d \in ChatIds \ {c} :
    /\ ListForUser(transactions', d) = ListForUser(transactions, d)
    /\ (d \in DOMAIN user_totals_cache') = (d \in DOMAIN user_totals_cache)
    /\ d \in DOMAIN user_totals_cache =>
         user_totals_cache'[d] = user_totals_cache[d]

\* C12: an add, a get-total or a reset for chat c leaves the rows and the
\* dict entry of every other chat unchanged; a step keeps the rows, or
\* appends one row of the calling chat (an add), or removes exactly the rows
\* of the calling chat (its reset): no stored row is ever modified, and none
\* is removed by anything but a reset of its own chat.
C12_ChatsIndependent ==
  [][LET c  == last'.chat_id
         op == last'.op
     IN  /\ op \in {"handle_message", "get_total", "reset_transactions"}
              => OthersUnchanged(c)
         /\ \/ transactions' = transactions
            \/ /\ op = "handle_message"
               /\ Len(transactions') = Len(transactions) + 1
               /\ SubSeq(transactions', 1, Len(transactions)) = transactions
               /\ transactions'[Len(transactions')].chat_id = c
            \/ /\ op = "reset_transactions"
               /\ transactions' = DeleteForUser(transactions, c)]_vars

\* a reset of one chat has emptied its rows (its dict entry shows it had
\* some) while another chat has rows and a dict entry
C12_Witness ==
  LET c == last.chat_id
  IN  /\ last.op = "reset_transactions" /\ last.error = "none"
      /\ ListForUser(transactions, c) = <<>>
      /\ c \in DOMAIN user_totals_cache /\ user_totals_cache[c] # 0
      /\ \E d \in ChatIds \ {c} :
           /\ ListForUser(transactions, d) # <<>>
           /\ d \in DOMAIN user_totals_cache

RECURSIVE SumTotals(_)
SumTotals(agg) ==
  IF agg = <<>> THEN 0 ELSE Head(agg).total_amount + SumTotals(Tail(agg))

C14_AddAppendsRow ==
  [][Acknowledged' =>
       ListForUser(transactions', last'.chat_id) =
         Append(ListForUser(transactions, last'.chat_id),
                [amount |-> out'[1].amount, date |-> today,
                 category |-> "general", chat_id |-> last'.chat_id])]_vars

\* C15: /clear_cache and /broadcast from a chat other than ADMIN_ID change
\* neither the dict nor the tables and send messages to no chat but the
\* caller.
C15_AdminOnly ==
  [][(last'.op \in {"clear_cache", "broadcast_message"}
      /\ last'.chat_id # ADMIN_ID) =>
       /\ UNCHANGED <<user_totals_cache, users, transactions>>
       /\ \A i \in DOMAIN out' : out'[i].to = last'.chat_id]_vars

\* C16: after a save_transaction that returned normally, whatever the dict
\* held for the chat before, the dict entry of the chat is the sum of the
\* chat's stored rows, the new row included.
C16_SaveRecomputesTotal ==
  [][\A c \in ChatIds, t \in ValidTexts :
       handle_message(c, t, "ok", "ok", "ok") =>
         /\ c \in DOMAIN user_totals_cache'
         /\ user_totals_cache'[c] =
              SumAmounts(ListForUser(transactions, c)) + ParseAmount(Strip(t))
         /\ user_totals_cache'[c] =
              SumAmounts(ListForUser(transactions', c))]_vars

\* C17: a call of get_total never changes the rows.  On a hit it returns the
\* dict entry, whatever the state of storage, and leaves the dict as it is;
\* on a miss that does not raise it returns the sum of the chat's rows and
\* stores that sum under the chat's key, changing no other entry; a miss
\* that raises leaves the dict as it is.
C17_GetTotalHitMiss ==
  [][\A c \in ChatIds, f \in Outcomes :
       call_get_total(c, f) =>
         /\ transactions' = transactions
         /\ IF c \in DOMAIN user_totals_cache
            THEN /\ last'.error = "none"
                 /\ last'.result = user_totals_cache[c]
                 /\ user_totals_cache' = user_totals_cache
                 /\ \A db \in Outcomes :
                      LET g == get_total(user_totals_cache, transactions, c,
                                         db)
                      IN  ~g.error /\ g.total = user_totals_cache[c]
            ELSE IF last'.error = "none"
            THEN /\ last'.result = SumAmounts(ListForUser(transactions, c))
                 /\ DOMAIN user_totals_cache' =
                      DOMAIN user_totals_cache \cup {c}
                 /\ user_totals_cache'[c] = last'.result
                 /\ \A d \in DOMAIN user_totals_cache :
                      user_totals_cache'[d] = user_totals_cache[d]
            ELSE user_totals_cache' = user_totals_cache]_vars

\* a miss read the sum of two rows from storage and stored it, next to the
\* entry of another chat
C17_Witness ==
  LET c == last.chat_id
  IN  /\ last.op = "get_total" /\ last.arg = "miss" /\ last.error = "none"
      /\ Len(ListForUser(transactions, c)) = 2
      /\ last.result = StoredSum(c) /\ last.result # 0
      /\ c \in DOMAIN user_totals_cache
      /\ user_totals_cache[c] = last.result
      /\ DOMAIN user_totals_cache # {c}

\* C18: every message that matches the pattern is persisted and answered
\* with the amount and the total, then the group notification is sent, then
\* the admin notification exactly when the amount exceeds
\* TRANSACTION_THRESHOLD, and the handler returns without an exception.
C18_NotifiesAndCompletes ==
  (last.op = "handle_message" /\ Matches(Strip(last.arg))) =>
    LET amount == ParseAmount(Strip(last.arg))
        kinds  == [i \in DOMAIN out |-> out[i].kind]
    IN  /\ last.error = "none"
        /\ transactions # <<>>
        /\ transactions[Len(transactions)].amount = amount
        /\ transactions[Len(transactions)].chat_id = last.chat_id
        /\ kinds = IF amount > TRANSACTION_THRESHOLD
                   THEN <<"added", "group", "admin">>
                   ELSE <<"added", "group">>
        /\ out[1].amount = amount

====
